---- MODULE Spec2Model ----
(***************************************************************************)
(* Conversions between bigdecimal's BigDecimal and Python's                *)
(* decimal.Decimal (src/conversions/bigdecimal.rs).                        *)
(*                                                                         *)
(* Strings are sequences of one-character strings.  A BigInt is a sign and *)
(* a magnitude kept as its decimal digits, so that no magnitude is ever    *)
(* cut to a machine width.  A BigDecimal is (int_val, scale) and stands    *)
(* for int_val * 10^-scale.  A Python object is a record                   *)
(* [kind, sign, int, exp]: kind "dec" is a finite decimal.Decimal with     *)
(* coefficient digits int and exponent exp, "nan"/"snan"/"inf" are the     *)
(* non-finite Decimals, "int" is a Python int, and "obj" is an object      *)
(* whose __str__ raises.                                                   *)
(*                                                                         *)
(* The library calls are modelled by what the libraries do: BigDecimal's   *)
(* Display and FromStr as in bigdecimal 0.4 (0.4.3 and later, default      *)
(* thresholds), Decimal.__str__ and Decimal(string) as in CPython's        *)
(* decimal module with the default context.                                *)
(***************************************************************************)
EXTENDS Integers, Sequences, FiniteSets, TLC

VARIABLES
    DECIMAL_CLS,  \* the once-cell: 0 while unset, else the handle stored
    pc,           \* pc[p]: where caller p is
    arg_n,        \* the BigDecimal given to to_object
    arg_v,        \* the Python object given to extract_bound
    chain,        \* "none", or the round trip the running call completes
    orig_n,       \* the BigDecimal a native->foreign->native trip began with
    orig_v,       \* the object a foreign->native->foreign trip began with
    result,       \* what extract_bound returned
    ret,          \* the object to_object returned
    dec_cls,      \* the handle get_decimal_cls gave the call
    resolved,     \* TRUE when the call ran the cell's initializer itself
    cause         \* why the call panicked

vars == <<DECIMAL_CLS, pc, arg_n, arg_v, chain, orig_n, orig_v, result, ret,
          dec_cls, resolved, cause>>

(* ------------------------------ bounds -------------------------------- *)
\* callers that may run to_object / extract_bound concurrently (SpecConc)
NumProcs == 2
\* largest coefficient magnitude drawn for a BigDecimal or a Decimal
MaxCoeff == 12
\* scales are drawn from -MaxNegScale .. MaxScale
MaxScale == 8
MaxNegScale == 17
\* Python ints are drawn from -MaxIntObj .. MaxIntObj
MaxIntObj == 20
\* width of the machine integer the probe extracts (i64, scaled down)
ProbeBits == 4

(* --------------------------- string helpers --------------------------- *)
DigitSeq == <<"0", "1", "2", "3", "4", "5", "6", "7", "8", "9">>
Digit == {DigitSeq[i] : i \in 1..10}
DigitChar(d) == DigitSeq[d + 1]
DigitVal(c) == (CHOOSE i \in 1..10 : DigitSeq[i] = c) - 1

Abs(i) == IF i < 0 THEN -i ELSE i

RECURSIVE NatToStr(_)
NatToStr(n) ==
    IF n < 10 THEN <<DigitChar(n)>>
    ELSE NatToStr(n \div 10) \o <<DigitChar(n % 10)>>

RECURSIVE StrToNat(_)
StrToNat(s) ==
    IF s = <<>> THEN 0
    ELSE StrToNat(SubSeq(s, 1, Len(s) - 1)) * 10 + DigitVal(s[Len(s)])

AllDigits(s) == \A i \in 1..Len(s) : s[i] \in Digit

Zeros(k) == [i \in 1..k |-> "0"]

\* str::find: the first position holding a character of cs, 0 when none
Find(s, cs) ==
    IF \E i \in 1..Len(s) : s[i] \in cs
    THEN CHOOSE i \in 1..Len(s) :
            s[i] \in cs /\ \A j \in 1..(i - 1) : s[j] \notin cs
    ELSE 0

\* a digit string without its leading zeros ("0" for zero)
RECURSIVE StripLeadingZeros(_)
StripLeadingZeros(s) ==
    IF Len(s) > 1 /\ s[1] = "0" THEN StripLeadingZeros(Tail(s)) ELSE s

\* "{:+}" of an integer
FmtSigned(e) == (IF e < 0 THEN <<"-">> ELSE <<"+">>) \o NatToStr(Abs(e))

\* integer from_str: an optional sign, then at least one digit
ParseIntOk(s) ==
    LET body == IF Len(s) > 0 /\ s[1] \in {"+", "-"} THEN Tail(s) ELSE s
    IN  Len(body) > 0 /\ AllDigits(body)
ParseIntVal(s) ==
    LET neg == Len(s) > 0 /\ s[1] = "-"
        body == IF Len(s) > 0 /\ s[1] \in {"+", "-"} THEN Tail(s) ELSE s
    IN  IF neg THEN -StrToNat(body) ELSE StrToNat(body)

(* ------------------------------ BigInt -------------------------------- *)
BigInt(sign, mag) ==
    LET m == StripLeadingZeros(mag)
    IN  [sign |-> IF m = <<"0">> THEN "NoSign" ELSE sign, mag |-> m]

\* BigInt::from(i64)
BigInt_from(i) == BigInt(IF i < 0 THEN "Minus" ELSE "Plus", NatToStr(Abs(i)))

\* BigInt::from_str_radix(s, 10)
BigInt_from_str_ok(s) ==
    LET t == IF Len(s) > 0 /\ s[1] = "-" /\ ~(Len(s) > 1 /\ s[2] = "+")
             THEN Tail(s) ELSE s
        u == IF Len(t) > 0 /\ t[1] = "+" /\ ~(Len(t) > 1 /\ t[2] = "+")
             THEN Tail(t) ELSE t
    IN  Len(u) > 0 /\ AllDigits(u)
BigInt_from_str(s) ==
    LET neg == Len(s) > 0 /\ s[1] = "-"
        t == IF neg THEN Tail(s) ELSE s
        u == IF Len(t) > 0 /\ t[1] = "+" THEN Tail(t) ELSE t
    IN  BigInt(IF neg THEN "Minus" ELSE "Plus", u)

BigDecimal_new(int_val, scale) == [int_val |-> int_val, scale |-> scale]

(* ---------------- BigDecimal: Display and FromStr ---------------------- *)
\* bigdecimal's exponential-format thresholds (leading / trailing zeros)
EXPONENTIAL_FORMAT_LEADING_ZERO_THRESHOLD == 5
EXPONENTIAL_FORMAT_TRAILING_ZERO_THRESHOLD == 15

\* format_exponential with the exponent one too large
format_exponential_off_by_one(abs_int, scale) ==
    LET exponent == Len(abs_int) - scale
        mant == IF Len(abs_int) > 1
                THEN <<abs_int[1], ".">> \o Tail(abs_int)
                ELSE abs_int
    IN  IF exponent # 0 THEN mant \o <<"E">> \o FmtSigned(exponent) ELSE mant

\* d.ddd, then E and the signed exponent unless it is zero
format_exponential(abs_int, scale) ==
    LET exponent == Len(abs_int) - scale - 1
        mant == IF Len(abs_int) > 1
                THEN <<abs_int[1], ".">> \o Tail(abs_int)
                ELSE abs_int
    IN  IF exponent # 0 THEN mant \o <<"E">> \o FmtSigned(exponent) ELSE mant

\* all digits, then e and the signed exponent
format_dotless_exponential(abs_int, scale) ==
    abs_int \o <<"e">> \o FmtSigned(-scale)

\* plain notation: zeros appended for scale <= 0, a decimal point otherwise
format_full_scale(abs_int, scale) ==
    LET len == Len(abs_int)
    IN  IF scale <= 0
        THEN IF -scale > 20
             THEN abs_int \o <<"e">> \o FmtSigned(-scale)
             ELSE abs_int \o Zeros(-scale)
        ELSE IF scale < len
             THEN SubSeq(abs_int, 1, len - scale) \o <<".">>
                    \o SubSeq(abs_int, len - scale + 1, len)
             ELSE <<"0", ".">> \o Zeros(scale - len) \o abs_int

\* <BigDecimal as Display>::fmt with no precision, as self.to_string() uses it
to_string(n) ==
    LET abs_int == n.int_val.mag
        len == Len(abs_int)
        leading_zero_count == IF n.scale >= len THEN n.scale - len ELSE 0
        trailing_zeros == IF n.scale <= 0 THEN -n.scale ELSE 0
        body ==
            IF EXPONENTIAL_FORMAT_LEADING_ZERO_THRESHOLD < leading_zero_count
            THEN format_exponential(abs_int, n.scale)
            ELSE IF EXPONENTIAL_FORMAT_TRAILING_ZERO_THRESHOLD < trailing_zeros
                 THEN format_dotless_exponential(abs_int, n.scale)
                 ELSE format_full_scale(abs_int, n.scale)
    IN  (IF n.int_val.sign = "Minus" THEN <<"-">> ELSE <<>>) \o body

NoNative == BigDecimal_new([sign |-> "NoSign", mag |-> <<>>], 0)

\* from_str that splits the exponent off at a lower-case e only
from_str_lowercase_e(s) ==
    LET loc == Find(s, {"e"})
        base_part == IF loc = 0 THEN s ELSE SubSeq(s, 1, loc - 1)
        e_exp == IF loc = 0 THEN <<>> ELSE SubSeq(s, loc + 1, Len(s))
        exp_ok == loc = 0 \/ ParseIntOk(e_exp)
        exponent_value == IF loc = 0 THEN 0 ELSE ParseIntVal(e_exp)
        dot == Find(base_part, {"."})
        digits == IF dot = 0 THEN base_part
                  ELSE SubSeq(base_part, 1, dot - 1)
                         \o SubSeq(base_part, dot + 1, Len(base_part))
        decimal_offset == IF dot = 0 THEN 0 ELSE Len(base_part) - dot
        Err(m) == [ok |-> FALSE, val |-> NoNative, msg |-> m]
    IN  IF ~exp_ok THEN Err("ParseInt")
        ELSE IF base_part = <<>> THEN Err("Empty")
        ELSE IF ~BigInt_from_str_ok(digits) THEN Err("ParseBigInt")
        ELSE [ok |-> TRUE,
              val |-> BigDecimal_new(BigInt_from_str(digits),
                                     decimal_offset - exponent_value),
              msg |-> ""]

\* <BigDecimal as FromStr>::from_str: [ok, val, msg]
from_str(s) ==
    LET loc == Find(s, {"e", "E"})
        base_part == IF loc = 0 THEN s ELSE SubSeq(s, 1, loc - 1)
        e_exp == IF loc = 0 THEN <<>> ELSE SubSeq(s, loc + 1, Len(s))
        exp_ok == loc = 0 \/ ParseIntOk(e_exp)
        exponent_value == IF loc = 0 THEN 0 ELSE ParseIntVal(e_exp)
        dot == Find(base_part, {"."})
        digits == IF dot = 0 THEN base_part
                  ELSE SubSeq(base_part, 1, dot - 1)
                         \o SubSeq(base_part, dot + 1, Len(base_part))
        decimal_offset == IF dot = 0 THEN 0 ELSE Len(base_part) - dot
        Err(m) == [ok |-> FALSE, val |-> NoNative, msg |-> m]
    IN  IF ~exp_ok THEN Err("ParseInt")
        ELSE IF base_part = <<>> THEN Err("Empty")
        ELSE IF ~BigInt_from_str_ok(digits) THEN Err("ParseBigInt")
        ELSE [ok |-> TRUE,
              val |-> BigDecimal_new(BigInt_from_str(digits),
                                     decimal_offset - exponent_value),
              msg |-> ""]

\* From<i64> that takes the integer as unsigned
From_i64_unsigned(i) == BigDecimal_new(BigInt_from(Abs(i)), 0)

\* <BigDecimal as From<i64>>::from
From_i64(i) == BigDecimal_new(BigInt_from(i), 0)

(* ------------------------ Python side objects ------------------------- *)
PyObj(kind, sign, int, exp) ==
    [kind |-> kind, sign |-> sign, int |-> int, exp |-> exp]
NoObject == PyObj("none", 0, <<>>, 0)

\* decimal.Decimal.__str__ (scientific string, context.capitals = 1)
Decimal_str(v) ==
    LET sign == IF v.sign = 1 THEN <<"-">> ELSE <<>>
        leftdigits == v.exp + Len(v.int)
        dotplace == IF v.exp <= 0 /\ leftdigits > -6 THEN leftdigits ELSE 1
        intpart == IF dotplace <= 0 THEN <<"0">>
                   ELSE IF dotplace >= Len(v.int)
                        THEN v.int \o Zeros(dotplace - Len(v.int))
                        ELSE SubSeq(v.int, 1, dotplace)
        fracpart == IF dotplace <= 0 THEN <<".">> \o Zeros(-dotplace) \o v.int
                    ELSE IF dotplace >= Len(v.int) THEN <<>>
                         ELSE <<".">> \o SubSeq(v.int, dotplace + 1, Len(v.int))
        exp == IF leftdigits = dotplace THEN <<>>
               ELSE <<"E">> \o FmtSigned(leftdigits - dotplace)
    IN  CASE v.kind = "inf" -> sign \o <<"I", "n", "f", "i", "n", "i", "t", "y">>
          [] v.kind = "nan" -> sign \o <<"N", "a", "N">>
          [] v.kind = "snan" -> sign \o <<"s", "N", "a", "N">>
          [] OTHER -> sign \o intpart \o fracpart \o exp

\* obj.str()?.to_cow()?: [ok, s]; ok is FALSE when __str__ raises
obj_str(v) ==
    CASE v.kind = "obj" -> [ok |-> FALSE, s |-> <<>>]
      [] v.kind = "int" ->
            [ok |-> TRUE, s |-> (IF v.sign = 1 THEN <<"-">> ELSE <<>>) \o v.int]
      [] OTHER -> [ok |-> TRUE, s |-> Decimal_str(v)]

\* decimal.Decimal(string): the object built, kind "invalid" when the
\* constructor raises
Decimal_new(s) ==
    LET has_sign == Len(s) > 0 /\ s[1] \in {"-", "+"}
        sign == IF has_sign /\ s[1] = "-" THEN 1 ELSE 0
        body == IF has_sign THEN Tail(s) ELSE s
        loc == Find(body, {"e", "E"})
        base == IF loc = 0 THEN body ELSE SubSeq(body, 1, loc - 1)
        exps == IF loc = 0 THEN <<>> ELSE SubSeq(body, loc + 1, Len(body))
        dot == Find(base, {"."})
        intpart == IF dot = 0 THEN base ELSE SubSeq(base, 1, dot - 1)
        fracpart == IF dot = 0 THEN <<>> ELSE SubSeq(base, dot + 1, Len(base))
        number == /\ AllDigits(intpart) /\ AllDigits(fracpart)
                  /\ Len(intpart) + Len(fracpart) > 0
                  /\ (loc = 0 \/ ParseIntOk(exps))
        exp == IF loc = 0 THEN 0 ELSE ParseIntVal(exps)
    IN  IF number
        THEN PyObj("dec", sign, StripLeadingZeros(intpart \o fracpart),
                   exp - Len(fracpart))
        ELSE IF body = <<"I", "n", "f", "i", "n", "i", "t", "y">>
             THEN PyObj("inf", sign, <<"0">>, 0)
        ELSE IF body = <<"N", "a", "N">> THEN PyObj("nan", sign, <<"0">>, 0)
        ELSE IF body = <<"s", "N", "a", "N">> THEN PyObj("snan", sign, <<"0">>, 0)
        ELSE PyObj("invalid", 0, <<>>, 0)

\* the machine-integer range of the probe
I64_MAX == 2 ^ (ProbeBits - 1) - 1
I64_MIN == -(2 ^ (ProbeBits - 1))

\* obj.extract::<i64>(): [ok, val]; only an in-range Python int is accepted
extract_i64(v) ==
    LET i == IF v.sign = 1 THEN -StrToNat(v.int) ELSE StrToNat(v.int)
    IN  IF v.kind = "int" /\ I64_MIN <= i /\ i <= I64_MAX
        THEN [ok |-> TRUE, val |-> i]
        ELSE [ok |-> FALSE, val |-> 0]

\* line 65: the fast path builds the BigDecimal from the probed integer
fast_path(val) ==
    [tag |-> "ok", val |-> From_i64(val), err |-> "", msg |-> "",
     path |-> "fast"]

\* lines 67-68: render the object, parse the string; a rendering error is
\* returned as it is, a parse error becomes PyValueError(e.to_string())
slow_path(obj) ==
    LET s == obj_str(obj)
        parsed == from_str(s.s)
    IN  IF ~s.ok
        THEN [tag |-> "err", val |-> NoNative, err |-> "StrError",
              msg |-> "", path |-> "slow"]
        ELSE IF parsed.ok
        THEN [tag |-> "ok", val |-> parsed.val, err |-> "", msg |-> "",
              path |-> "slow"]
        ELSE [tag |-> "err", val |-> NoNative, err |-> "PyValueError",
              msg |-> parsed.msg, path |-> "slow"]

\* extract_bound that answers a parse failure with the default value
extract_bound_default(obj) ==
    LET probe == extract_i64(obj)
        slow == slow_path(obj)
    IN  IF probe.ok THEN fast_path(probe.val)
        ELSE IF slow.err = "PyValueError"
        THEN [tag |-> "ok", val |-> From_i64(0), err |-> "", msg |-> "",
              path |-> "slow"]
        ELSE slow

\* extract_bound that returns the probe's error instead of dropping it
extract_bound_probe_error(obj) ==
    LET probe == extract_i64(obj)
    IN  IF probe.ok THEN fast_path(probe.val)
        ELSE [tag |-> "err", val |-> NoNative, err |-> "PyTypeError",
              msg |-> "", path |-> "fast"]

\* extract_bound whose probe saturates an out-of-range int
extract_bound_saturating(obj) ==
    LET probe == extract_i64(obj)
    IN  IF probe.ok THEN fast_path(probe.val)
        ELSE IF obj.kind = "int"
        THEN fast_path(IF obj.sign = 1 THEN I64_MIN ELSE I64_MAX)
        ELSE slow_path(obj)

\* FromPyObject for BigDecimal: [tag, val, err, msg, path]; the probe's
\* error is dropped by `if let Ok(val)`
extract_bound(obj) ==
    LET probe == extract_i64(obj)
    IN  IF probe.ok THEN fast_path(probe.val) ELSE slow_path(obj)

\* BigDecimal's PartialEq compares the numbers, not the representations
RECURSIVE Normalized(_)
Normalized(n) ==
    LET m == n.int_val.mag
    IN  IF m = <<"0">> \/ m = <<>> THEN BigDecimal_new(n.int_val, 0)
        ELSE IF m[Len(m)] = "0"
        THEN Normalized(BigDecimal_new(
                 [sign |-> n.int_val.sign, mag |-> SubSeq(m, 1, Len(m) - 1)],
                 n.scale - 1))
        ELSE n
BigDecimal_eq(a, b) == Normalized(a) = Normalized(b)

NoResult == [tag |-> "none", val |-> NoNative, err |-> "", msg |-> "",
             path |-> ""]

(* ------------------------------ inputs -------------------------------- *)
Procs == 1..NumProcs

Natives ==
    {BigDecimal_new(BigInt_from(i), sc) :
        i \in (-MaxCoeff)..MaxCoeff, sc \in (-MaxNegScale)..MaxScale}

Decimals ==
    {PyObj("dec", sg, NatToStr(c), e) :
        sg \in {0, 1}, c \in 0..MaxCoeff, e \in (-MaxScale)..MaxNegScale}
NonFinite == {PyObj(k, sg, <<"0">>, 0) : k \in {"nan", "snan", "inf"}, sg \in {0, 1}}
PyInts ==
    {PyObj("int", IF i < 0 THEN 1 ELSE 0, NatToStr(Abs(i)), 0) :
        i \in (-MaxIntObj)..MaxIntObj}
RaisingObjs == {PyObj("obj", 0, <<>>, 0)}
Foreigns == Decimals \cup NonFinite \cup PyInts \cup RaisingObjs

\* the inputs of the concurrent specification
ConcNatives == {BigDecimal_new(BigInt_from(i), 1) : i \in {-1, 0}}
ConcForeigns == {PyObj("dec", 1, <<"0">>, 0), PyObj("nan", 0, <<"0">>, 0)}

(* ------------------------------ actions ------------------------------- *)
Init ==
    /\ DECIMAL_CLS = 0
    /\ pc = [p \in Procs |-> "idle"]
    /\ arg_n = [p \in Procs |-> NoNative]
    /\ arg_v = [p \in Procs |-> NoObject]
    /\ chain = [p \in Procs |-> "none"]
    /\ orig_n = [p \in Procs |-> NoNative]
    /\ orig_v = [p \in Procs |-> NoObject]
    /\ result = [p \in Procs |-> NoResult]
    /\ ret = [p \in Procs |-> NoObject]
    /\ dec_cls = [p \in Procs |-> 0]
    /\ resolved = [p \in Procs |-> FALSE]
    /\ cause = [p \in Procs |-> ""]

\* to_object entered with n: get_decimal_cls reads the cell; a set cell
\* gives its handle at once, an unset one starts the initializer
to_object_enter(p, n) ==
    /\ arg_n' = [arg_n EXCEPT ![p] = n]
    /\ ret' = [ret EXCEPT ![p] = NoObject]
    /\ cause' = [cause EXCEPT ![p] = ""]
    /\ resolved' = [resolved EXCEPT ![p] = FALSE]
    /\ IF DECIMAL_CLS # 0
       THEN /\ dec_cls' = [dec_cls EXCEPT ![p] = DECIMAL_CLS]
            /\ pc' = [pc EXCEPT ![p] = "to_call"]
       ELSE /\ dec_cls' = [dec_cls EXCEPT ![p] = 0]
            /\ pc' = [pc EXCEPT ![p] = "to_resolving"]
    /\ UNCHANGED DECIMAL_CLS

\* a caller converts a BigDecimal of its own
ToObject(p, n) ==
    /\ pc[p] = "idle"
    /\ to_object_enter(p, n)
    /\ chain' = [chain EXCEPT ![p] = "none"]
    /\ UNCHANGED <<arg_v, orig_n, orig_v, result>>

\* the value the initializer's store leaves in the cell: the first store
\* wins, a later one is dropped
cell_set(cell, value) == IF cell = 0 THEN value ELSE cell

\* ResolveOk that keeps the handle it resolved instead of reading the cell
ResolveOk_own_handle(p) ==
    /\ pc[p] = "to_resolving"
    /\ DECIMAL_CLS' = cell_set(DECIMAL_CLS, p)
    /\ dec_cls' = [dec_cls EXCEPT ![p] = p]
    /\ resolved' = [resolved EXCEPT ![p] = TRUE]
    /\ pc' = [pc EXCEPT ![p] = "to_call"]
    /\ UNCHANGED <<arg_n, arg_v, chain, orig_n, orig_v, result, ret, cause>>

\* the initializer (import decimal, getattr Decimal) succeeded: store, then
\* read the cell back
ResolveOk(p) ==
    /\ pc[p] = "to_resolving"
    /\ DECIMAL_CLS' = cell_set(DECIMAL_CLS, p)
    /\ dec_cls' = [dec_cls EXCEPT ![p] = DECIMAL_CLS']
    /\ resolved' = [resolved EXCEPT ![p] = TRUE]
    /\ pc' = [pc EXCEPT ![p] = "to_call"]
    /\ UNCHANGED <<arg_n, arg_v, chain, orig_n, orig_v, result, ret, cause>>

\* the initializer failed: expect("failed to load decimal.Decimal") panics
ResolveFail(p) ==
    /\ pc[p] = "to_resolving"
    /\ pc' = [pc EXCEPT ![p] = "panicked"]
    /\ cause' = [cause EXCEPT ![p] = "resolve"]
    /\ UNCHANGED <<DECIMAL_CLS, arg_n, arg_v, chain, orig_n, orig_v, result,
                   ret, dec_cls, resolved>>

\* dec_cls.call1((self.to_string(),)) returned: the constructor's own
\* rejection of the string is an Err, which expect turns into a panic
CallOk(p) ==
    /\ pc[p] = "to_call"
    /\ LET obj == Decimal_new(to_string(arg_n[p]))
       IN  IF obj.kind = "invalid"
           THEN /\ pc' = [pc EXCEPT ![p] = "panicked"]
                /\ cause' = [cause EXCEPT ![p] = "value"]
                /\ UNCHANGED ret
           ELSE /\ pc' = [pc EXCEPT ![p] = "to_done"]
                /\ ret' = [ret EXCEPT ![p] = obj]
                /\ UNCHANGED cause
    /\ UNCHANGED <<DECIMAL_CLS, arg_n, arg_v, chain, orig_n, orig_v, result,
                   dec_cls, resolved>>

\* CallFail that answers the failure with a default object (Decimal("0"))
CallFail_default(p) ==
    /\ pc[p] = "to_call"
    /\ pc' = [pc EXCEPT ![p] = "to_done"]
    /\ ret' = [ret EXCEPT ![p] = PyObj("dec", 0, <<"0">>, 0)]
    /\ UNCHANGED <<DECIMAL_CLS, arg_n, arg_v, chain, orig_n, orig_v, result,
                   dec_cls, resolved, cause>>

\* the interpreter failed to run the call:
\* expect("failed to call decimal.Decimal(value)") panics
CallFail(p) ==
    /\ pc[p] = "to_call"
    /\ pc' = [pc EXCEPT ![p] = "panicked"]
    /\ cause' = [cause EXCEPT ![p] = "invoke"]
    /\ UNCHANGED <<DECIMAL_CLS, arg_n, arg_v, chain, orig_n, orig_v, result,
                   ret, dec_cls, resolved>>

\* ExtractBound that resolves decimal.Decimal through the cell first
ExtractBound_init_cls(p, v) ==
    /\ pc[p] = "idle"
    /\ DECIMAL_CLS' = cell_set(DECIMAL_CLS, p)
    /\ arg_v' = [arg_v EXCEPT ![p] = v]
    /\ result' = [result EXCEPT ![p] = extract_bound(v)]
    /\ chain' = [chain EXCEPT ![p] = "none"]
    /\ pc' = [pc EXCEPT ![p] = "from_done"]
    /\ UNCHANGED <<arg_n, orig_n, orig_v, ret, dec_cls, resolved, cause>>

\* extract_bound on an object of the caller's own
ExtractBound(p, v) ==
    /\ pc[p] = "idle"
    /\ arg_v' = [arg_v EXCEPT ![p] = v]
    /\ result' = [result EXCEPT ![p] = extract_bound(v)]
    /\ chain' = [chain EXCEPT ![p] = "none"]
    /\ pc' = [pc EXCEPT ![p] = "from_done"]
    /\ UNCHANGED <<DECIMAL_CLS, arg_n, orig_n, orig_v, ret, dec_cls, resolved,
                   cause>>

\* native -> foreign -> native: extract_bound on what to_object returned
ExtractReturned(p) ==
    /\ pc[p] = "to_done"
    /\ chain[p] = "none"
    /\ arg_v' = [arg_v EXCEPT ![p] = ret[p]]
    /\ orig_n' = [orig_n EXCEPT ![p] = arg_n[p]]
    /\ result' = [result EXCEPT ![p] = extract_bound(ret[p])]
    /\ chain' = [chain EXCEPT ![p] = "n2f2n"]
    /\ pc' = [pc EXCEPT ![p] = "from_done"]
    /\ UNCHANGED <<DECIMAL_CLS, arg_n, orig_v, ret, dec_cls, resolved, cause>>

\* foreign -> native -> foreign: to_object on what extract_bound returned
ToObjectExtracted(p) ==
    /\ pc[p] = "from_done"
    /\ chain[p] = "none"
    /\ result[p].tag = "ok"
    /\ to_object_enter(p, result[p].val)
    /\ orig_v' = [orig_v EXCEPT ![p] = arg_v[p]]
    /\ chain' = [chain EXCEPT ![p] = "f2n2f"]
    /\ UNCHANGED <<arg_v, orig_n, result>>

\* the call is over (returned, or unwound by the panic); its frame is gone
Return(p) ==
    /\ pc[p] \in {"to_done", "from_done", "panicked"}
    /\ pc' = [pc EXCEPT ![p] = "idle"]
    /\ arg_n' = [arg_n EXCEPT ![p] = NoNative]
    /\ arg_v' = [arg_v EXCEPT ![p] = NoObject]
    /\ chain' = [chain EXCEPT ![p] = "none"]
    /\ orig_n' = [orig_n EXCEPT ![p] = NoNative]
    /\ orig_v' = [orig_v EXCEPT ![p] = NoObject]
    /\ result' = [result EXCEPT ![p] = NoResult]
    /\ ret' = [ret EXCEPT ![p] = NoObject]
    /\ dec_cls' = [dec_cls EXCEPT ![p] = 0]
    /\ resolved' = [resolved EXCEPT ![p] = FALSE]
    /\ cause' = [cause EXCEPT ![p] = ""]
    /\ UNCHANGED DECIMAL_CLS

\* one caller, every input
Next ==
    \/ \E n \in Natives : ToObject(1, n)
    \/ \E v \in Foreigns : ExtractBound(1, v)
    \/ ResolveOk(1)
    \/ ResolveFail(1)
    \/ CallOk(1)
    \/ CallFail(1)
    \/ ExtractReturned(1)
    \/ ToObjectExtracted(1)
    \/ Return(1)

Spec == Init /\ [][Next]_vars

\* concurrent callers, few inputs
NextConc ==
    \E p \in Procs :
        \/ \E n \in ConcNatives : ToObject(p, n)
        \/ \E v \in ConcForeigns : ExtractBound(p, v)
        \/ ResolveOk(p)
        \/ ResolveFail(p)
        \/ CallOk(p)
        \/ CallFail(p)
        \/ ExtractReturned(p)
        \/ ToObjectExtracted(p)
        \/ Return(p)

SpecConc == Init /\ [][NextConc]_vars

(* ------------------------------ claims -------------------------------- *)
NonFiniteKinds == {"nan", "snan", "inf"}
DecimalKinds == {"dec"} \cup NonFiniteKinds

\* C1: native -> foreign -> native.  Whenever extract_bound has run on the
\* object to_object returned for a BigDecimal n, it returned Ok with a
\* value equal to n.
C1_RoundTripNative ==
    \A p \in Procs :
        (pc[p] = "from_done" /\ chain[p] = "n2f2n") =>
            /\ result[p].tag = "ok"
            /\ BigDecimal_eq(result[p].val, orig_n[p])

\* C1's case: a negative value whose magnitude is beyond the probe's range,
\* written in exponential form, has made the trip
C1_Witness ==
    \E p \in Procs :
        /\ pc[p] = "from_done" /\ chain[p] = "n2f2n"
        /\ result[p].tag = "ok"
        /\ orig_n[p].int_val.sign = "Minus"
        /\ Len(orig_n[p].int_val.mag) = 2
        /\ orig_n[p].scale = MaxScale

\* C2: foreign -> native -> foreign.  Whenever to_object has returned for
\* the value extract_bound gave for a finite Decimal v, the object returned
\* has v's sign, digits and exponent.
C2_RoundTripForeign ==
    \A p \in Procs :
        (pc[p] = "to_done" /\ chain[p] = "f2n2f" /\ orig_v[p].kind = "dec") =>
            ret[p] = orig_v[p]

\* C3: extract_bound on NaN, sNaN or (-)Infinity returns the ValueError,
\* through the slow path, and no BigDecimal.
C3_NonFiniteRejected ==
    \A p \in Procs :
        (pc[p] = "from_done" /\ arg_v[p].kind \in NonFiniteKinds) =>
            /\ result[p].tag = "err"
            /\ result[p].err = "PyValueError"
            /\ result[p].path = "slow"
            /\ result[p].val = NoNative

\* C3's case: extract_bound has run on -Infinity
C3_Witness ==
    \E p \in Procs :
        /\ pc[p] = "from_done"
        /\ arg_v[p].kind = "inf" /\ arg_v[p].sign = 1
        /\ result[p].tag = "err"

C5_InvalidIffNonFinite ==
    \A p \in Procs :
        (pc[p] = "from_done" /\ arg_v[p].kind \in DecimalKinds) =>
            /\ (result[p].tag = "err") <=> (arg_v[p].kind \in NonFiniteKinds)
            /\ result[p].tag = "err" => result[p].err = "PyValueError"
            /\ arg_v[p].kind = "dec" => result[p].tag = "ok"

\* C5's case: a finite Decimal whose string carries an exponent, and a
\* negative sign, has been extracted
C5_Witness ==
    \E p \in Procs :
        /\ pc[p] = "from_done" /\ chain[p] = "none"
        /\ arg_v[p].kind = "dec" /\ arg_v[p].sign = 1
        /\ arg_v[p].exp > 0
        /\ result[p].tag = "ok"

\* C6: the cell is set at most once.  In every step a set cell keeps its
\* value, and every call that holds a handle holds the cell's value, also
\* a call whose own store was dropped.
C6_InitializedOnce ==
    [][/\ DECIMAL_CLS # 0 => DECIMAL_CLS' = DECIMAL_CLS
       /\ \A p \in Procs :
            pc'[p] \in {"to_call", "to_done"} =>
                (dec_cls'[p] # 0 /\ dec_cls'[p] = DECIMAL_CLS')]_vars

\* C6's case: two calls found the cell unset and each ran the initializer;
\* both hold the handle of the one that stored first
C6_Witness ==
    \E p, q \in Procs :
        /\ p # q
        /\ resolved[p] /\ resolved[q]
        /\ pc[p] \in {"to_call", "to_done"} /\ pc[q] \in {"to_call", "to_done"}
        /\ DECIMAL_CLS = p /\ dec_cls[q] = p

\* C7: to_object returns, for every BigDecimal, the Decimal built from its
\* string whenever resolution and invocation succeed; it panics only when
\* one of the two failed, then returns no object, and the call that
\* panicked is not run again.
C7_ToObjectTotal ==
    [][\A p \in Procs :
        /\ pc'[p] = "to_done" =>
              /\ ret'[p].kind = "dec"
              /\ ret'[p] = Decimal_new(to_string(arg_n'[p]))
        /\ pc'[p] = "panicked" =>
              /\ cause'[p] \in {"resolve", "invoke"}
              /\ ret'[p] = NoObject
        /\ (pc[p] = "to_call" /\ pc'[p] # pc[p]) =>
              pc'[p] \in {"to_done", "panicked"}
        /\ (pc[p] = "to_resolving" /\ pc'[p] # pc[p]) =>
              pc'[p] \in {"to_call", "panicked"}
        /\ pc[p] = "panicked" => pc'[p] \in {"panicked", "idle"}]_vars

\* C7's case: to_object has returned for a negative BigDecimal whose string
\* is in the dotless exponential form
C7_Witness ==
    \E p \in Procs :
        /\ pc[p] = "to_done" /\ chain[p] = "none"
        /\ arg_n[p].int_val.sign = "Minus"
        /\ -arg_n[p].scale > EXPONENTIAL_FORMAT_TRAILING_ZERO_THRESHOLD
        /\ ret[p].kind = "dec"

\* C8 as stated: every error extract_bound returns is the ValueError of a
\* string that failed to parse.
C8_OnlyParseError ==
    \A p \in Procs :
        (pc[p] = "from_done" /\ result[p].tag = "err") =>
            /\ result[p].err = "PyValueError"
            /\ obj_str(arg_v[p]).ok
            /\ ~from_str(obj_str(arg_v[p]).s).ok

\* C8 amended: every error extract_bound returns is either the ValueError
\* carrying the parser's message, for a string that failed to parse, or
\* the error rendering the object raised; the probe's error is never
\* returned, and an error comes with no BigDecimal.
C8_ParseOrRenderError ==
    \A p \in Procs :
        pc[p] = "from_done" =>
            /\ result[p].tag \in {"ok", "err"}
            /\ result[p].tag = "ok" =>
                  (result[p].err = "" /\ result[p].val # NoNative)
            /\ result[p].tag = "err" =>
                  /\ result[p].val = NoNative
                  /\ ~extract_i64(arg_v[p]).ok
                  /\ \/ /\ result[p].err = "PyValueError"
                        /\ obj_str(arg_v[p]).ok
                        /\ ~from_str(obj_str(arg_v[p]).s).ok
                        /\ result[p].msg = from_str(obj_str(arg_v[p]).s).msg
                     \/ /\ result[p].err = "StrError"
                        /\ ~obj_str(arg_v[p]).ok

\* C8's case: extract_bound has returned the rendering error
C8_Witness ==
    \E p \in Procs :
        /\ pc[p] = "from_done"
        /\ result[p].tag = "err" /\ result[p].err = "StrError"

\* the BigDecimal a finite Decimal or a Python int stands for, from its
\* sign, digits and exponent
ExactValue(v) ==
    BigDecimal_new(BigInt(IF v.sign = 1 THEN "Minus" ELSE "Plus", v.int),
                   -v.exp)

\* C9: the fast path is taken exactly when the probe yields an integer;
\* otherwise the slow path runs, and a finite Decimal or an out-of-range
\* int comes out with exactly its digits, sign and scale.
C9_PathSelection ==
    \A p \in Procs :
        pc[p] = "from_done" =>
            /\ (result[p].path = "fast") <=> extract_i64(arg_v[p]).ok
            /\ ~extract_i64(arg_v[p]).ok => result[p].path = "slow"
            /\ arg_v[p].kind \in {"dec", "int"} =>
                  /\ result[p].tag = "ok"
                  /\ result[p].val = ExactValue(arg_v[p])

\* C9's case: an int beyond the probe's range has gone the slow path
C9_Witness ==
    \E p \in Procs :
        /\ pc[p] = "from_done"
        /\ arg_v[p].kind = "int" /\ arg_v[p].sign = 1
        /\ ~extract_i64(arg_v[p]).ok
        /\ result[p].path = "slow" /\ result[p].tag = "ok"

\* C10: a step of extract_bound leaves the cell as it was; so does a
\* to_object whose resolution fails, and so does any step once the cell is
\* set; a to_object that enters while the cell is unset starts resolution.
C10_CellFrame ==
    [][\A p \in Procs :
        /\ (pc'[p] = "from_done" /\ pc[p] # "from_done") =>
              DECIMAL_CLS' = DECIMAL_CLS
        /\ (pc[p] = "to_resolving" /\ pc'[p] = "panicked") =>
              DECIMAL_CLS' = DECIMAL_CLS
        /\ (DECIMAL_CLS # 0 /\ pc'[p] # pc[p]) => DECIMAL_CLS' = DECIMAL_CLS
        /\ (DECIMAL_CLS = 0 /\ pc[p] \in {"idle", "from_done"}
              /\ pc'[p] \notin {"idle", "from_done"}) =>
              pc'[p] = "to_resolving"]_vars

\* C10's case: a resolution has failed and the cell is still unset, while
\* another caller's extract_bound has returned its error
C10_Witness ==
    \E p, q \in Procs :
        /\ p # q
        /\ pc[p] = "panicked" /\ cause[p] = "resolve"
        /\ DECIMAL_CLS = 0
        /\ pc[q] = "from_done" /\ result[q].tag = "err"

====
